---- MODULE Spec2Model ----
(***************************************************************************)
(* turf-great-circle: greatCircle(start, end?, options?) of                *)
(* packages/turf-great-circle/index.ts, as a state machine that walks one  *)
(* call statement by statement.                                            *)
(*                                                                         *)
(* Angles are integers in millidegrees (179.999 degrees = 179999), except  *)
(* the offset option, which is kept in degrees as the caller passes it.    *)
(* An optional value (a possibly undefined argument or option) is a        *)
(* sequence of length 0 (undefined) or 1.                                  *)
(*                                                                         *)
(* The collaborators that are not in index.ts (getCoord, destination,      *)
(* lineString, and the GreatCircle generator of lib/arc.js with its        *)
(* Interpolator, Segmenter and json()) are modelled from the               *)
(* specification document.                                                 *)
(***************************************************************************)
EXTENDS Integers, Sequences, FiniteSets, TLC

VARIABLES start, end, options,          \* the three arguments of the call
          pc,                           \* position inside greatCircle
          properties, npoints, offset, bearing,   \* destructured options
          startCoord, endCoord,         \* <<>> until assigned
          firstPass,                    \* the Interpolator's output
          runs,                         \* the Segmenter's output
          result, error,                \* returned feature / thrown error
          interpCalls, segCalls, destCalls

vars == <<start, end, options, pc, properties, npoints, offset, bearing,
          startCoord, endCoord, firstPass, runs, result, error,
          interpCalls, segCalls, destCalls>>

inputs == <<start, end, options>>

----------------------------------------------------------------------------
(* Bounds and program constants *)

MaxNpoints == 4

DefaultNpoints == 100
DefaultOffset == 10
AlmostAntipodeDistance == 179999
MilliDegrees == 1000
Baseline == 360

Deg(d) == d * MilliDegrees

Abs(x) == IF x < 0 THEN -x ELSE x

----------------------------------------------------------------------------
(* Input domains *)

Lons == {Deg(-175), 0, Deg(170)}
Lats == {0, Deg(48)}
Coords == {<<lon, lat>> : lon \in Lons, lat \in Lats}

InvalidPoint == [kind |-> "invalid", coord |-> <<0, 0>>]
Undefined == [kind |-> "undefined", coord |-> <<0, 0>>]
PositionOf(c) == [kind |-> "position", coord |-> c]

PointLikes == {[kind |-> k, coord |-> c] : k \in {"position", "geometry", "feature"}, c \in Coords}
StartInputs == PointLikes \cup {InvalidPoint}
EndInputs == PointLikes \cup {InvalidPoint, Undefined}

TestRoute == {<<"name", "Test Route">>}
PropertyValues == {<<>>, <<TestRoute>>}
NpointsValues == {<<>>} \cup {<<n>> : n \in 2..MaxNpoints}
OffsetValues == {<<>>, <<20>>, <<200>>}
BearingValues == {<<>>, <<90>>, <<180>>}

NonObjectKinds == {"null", "number", "string", "boolean", "function"}

OptionsValue(k, p, n, o, b) ==
    [kind |-> k, properties |-> p, npoints |-> n, offset |-> o, bearing |-> b]

OptionsInputs ==
    {OptionsValue("object", p, n, o, b) :
        p \in PropertyValues, n \in NpointsValues,
        o \in OffsetValues, b \in BearingValues}
    \cup {OptionsValue(k, <<>>, <<>>, <<>>, <<>>) :
            k \in NonObjectKinds \cup {"undefined", "array"}}

----------------------------------------------------------------------------
(* Language semantics used by greatCircle *)

Opt(v, d) == IF v = <<>> THEN d ELSE v[1]

EmptyOptions == OptionsValue("object", <<>>, <<>>, <<>>, <<>>)

\* the default parameter `options = {}`: applies to undefined only
Defaulted(o) == IF o.kind = "undefined" THEN EmptyOptions ELSE o

\* typeof: null and arrays are "object"
TypeOf(o) ==
    IF o.kind \in {"object", "array", "null"} THEN "object" ELSE o.kind

\* `typeof options !== "object"` -> throw new Error("options is invalid")
OptionsRejected(o) == TypeOf(Defaulted(o)) # "object"

\* destructuring null throws a TypeError
Destructurable(o) == Defaulted(o).kind # "null"

DestructuredProperties(o) == Opt(Defaulted(o).properties, {})
DestructuredNpoints(o) == Opt(Defaulted(o).npoints, DefaultNpoints)
DestructuredOffset(o) == Opt(Defaulted(o).offset, DefaultOffset)
DestructuredBearing(o) == Defaulted(o).bearing

----------------------------------------------------------------------------
(* Collaborators *)

\* @turf/invariant getCoord: a position, a Point geometry or a Point feature
ValidPoint(p) == p.kind \in {"position", "geometry", "feature"}
GetCoord(p) == p.coord

\* @turf/destination with units "degrees", for a distance d close to 180
\* degrees and a bearing along a meridian or due east/west: the point just
\* short of the antipode.  The longitude is not normalised.
Destination(c, d, b) ==
    CASE b = 0   -> <<c[1] + Deg(180), (Deg(180) - d) - c[2]>>
      [] b = 180 -> <<c[1] + Deg(180), -(Deg(180) - d) - c[2]>>
      [] b = 90  -> <<c[1] + d, -c[2]>>
      [] OTHER   -> <<c[1] - d, -c[2]>>

\* @turf/helpers lineString: one run of coordinates and the property map
LineString(coords, props) ==
    [type |-> "LineString", coordinates |-> <<coords>>, properties |-> props]

NoResult == [type |-> "none", coordinates |-> <<>>, properties |-> {}]

\* longitude brought into (-180, 180], the range of atan2
Wrap(x) ==
    LET m == (x + Deg(180)) % Deg(360)
    IN  IF m = 0 THEN Deg(180) ELSE m - Deg(180)

ShortDelta(a, b) == Wrap(b - a)

\* Interpolator: n points at fractions f = i/(n-1) along the minor arc,
\* the first at start and the last at end.
Interpolate(s, e, n) ==
    LET lon0 == Wrap(s[1])
        dl == ShortDelta(lon0, Wrap(e[1]))
        dp == e[2] - s[2]
    IN  [i \in 1..n |->
            <<Wrap(lon0 + ((i - 1) * dl) \div (n - 1)),
              s[2] + ((i - 1) * dp) \div (n - 1)>>]

\* a threshold that grows with the sensitivity
CrossingThresholdGrowing(s) == Deg(Baseline) \div 2 + Deg(s)

\* Segmenter: the longitude delta of one adjacent pair against the threshold
CrossingThreshold(s) == Deg(Baseline) - Deg(s)

IsCrossing(p, q, s) == Abs(q[1] - p[1]) > CrossingThreshold(s)

\* the pairs (p[i], p[i+1]) at which a crossing is declared, by i
CutsAfter(coords, s) ==
    {i \in 1..(Len(coords) - 1) : IsCrossing(coords[i], coords[i + 1], s)}

\* a run opens at p[1] and at every p[i+1] that follows a declared crossing
RunStarts(coords, s) == {1} \cup {i + 1 : i \in CutsAfter(coords, s)}

\* the boundary point p[i] repeated at the head of the run that follows a cut
SegmentDuplicating(coords, s) ==
    LET starts == {1} \cup {i + 1 : i \in
                      {j \in 1..(Len(coords) - 1) :
                          Abs(coords[j + 1][1] - coords[j][1]) > Deg(Baseline) - Deg(s)}}
        nth(k) == CHOOSE a \in starts : Cardinality({b \in starts : b <= a}) = k
        last(k) == IF k = Cardinality(starts) THEN Len(coords) ELSE nth(k + 1) - 1
    IN  [k \in 1..Cardinality(starts) |->
            SubSeq(coords, IF k = 1 THEN 1 ELSE nth(k) - 1, last(k))]

\* the walk closes the current run after p[i] and opens the next at p[i+1]
Segment(coords, s) ==
    LET starts == RunStarts(coords, s)
        nth(k) == CHOOSE a \in starts : Cardinality({b \in starts : b <= a}) = k
        last(k) == IF k = Cardinality(starts) THEN Len(coords) ELSE nth(k + 1) - 1
    IN  [k \in 1..Cardinality(starts) |-> SubSeq(coords, nth(k), last(k))]

\* Arc.json(): one run is a LineString, several are a MultiLineString
Json(rs, props) ==
    IF Len(rs) <= 1
    THEN [type |-> "LineString", coordinates |-> rs, properties |-> props]
    ELSE [type |-> "MultiLineString", coordinates |-> rs, properties |-> props]

----------------------------------------------------------------------------
(* greatCircle, statement by statement *)

\* the exact antipode instead of the point just short of it
CalculateAlmostAntipodeExact(coord, b) == Destination(coord, Deg(180), b)

\* _calculateAlmostAntipode(coord, bearing)
CalculateAlmostAntipode(coord, b) ==
    Destination(coord, AlmostAntipodeDistance, b)

Thrown(e) == [error |-> e, coord |-> <<>>, dest |-> 0]

\* a missing bearing falls back to due north instead of throwing
ResolveEndCoordDefaultBearing(sc, e, b) ==
    IF e.kind = "undefined"
    THEN [error |-> "none", coord |-> Destination(sc, AlmostAntipodeDistance, Opt(b, 0)),
          dest |-> 1]
    ELSE IF ~ValidPoint(e)
         THEN Thrown("InvalidPointInput")
         ELSE [error |-> "none", coord |-> GetCoord(e), dest |-> 0]

\* a supplied bearing takes precedence over a supplied end
ResolveEndCoordBearingFirst(sc, e, b) ==
    IF b # <<>>
    THEN [error |-> "none", coord |-> Destination(sc, AlmostAntipodeDistance, b[1]),
          dest |-> 1]
    ELSE IF e.kind = "undefined"
         THEN Thrown("MissingEndpoint")
         ELSE IF ~ValidPoint(e)
              THEN Thrown("InvalidPointInput")
              ELSE [error |-> "none", coord |-> GetCoord(e), dest |-> 0]

\* if (end === undefined) { if (bearing === undefined) throw ...;
\*   endCoord = _calculateAlmostAntipode(startCoord, bearing) }
\* else endCoord = getCoord(end)
ResolveEndCoord(sc, e, b) ==
    IF e.kind = "undefined"
    THEN IF b = <<>>
         THEN Thrown("MissingEndpoint")
         ELSE [error |-> "none", coord |-> CalculateAlmostAntipode(sc, b[1]),
               dest |-> 1]
    ELSE IF ~ValidPoint(e)
         THEN Thrown("InvalidPointInput")
         ELSE [error |-> "none", coord |-> GetCoord(e), dest |-> 0]

\* the latitude compared with the wrong index
SameCoordTypo(a, b) == a[1] = b[1] /\ a[2] = b[1]

\* startCoord[0] === endCoord[0] && startCoord[1] === endCoord[1]
SameCoord(a, b) == a[1] = b[1] /\ a[2] = b[2]

\* one coordinate short
DegenerateLineShort(sc, n, props) ==
    LineString([i \in 1..(n - 1) |-> <<sc[1], sc[2]>>], props)

\* Array(npoints).fill([startCoord[0], startCoord[1]]); lineString(arr, properties)
DegenerateLine(sc, n, props) ==
    LineString([i \in 1..n |-> <<sc[1], sc[2]>>], props)

\* the property map not handed over
GeneratorPropertiesDropped(props) == {}

\* new GreatCircle({x, y}, {x, y}, properties): the property map handed over
GeneratorProperties(props) == props

\* generator.Arc(npoints, { offset: offset }): the two arguments handed over
ArcPoints(n) == n
ArcOffset(o) == o

\* only the first run returned, as a simple line
ReturnValueFirstRun(rs, props) == LineString(rs[1], props)

\* return line.json()
ReturnValue(rs, props) == Json(rs, props)

Outcome(e, r) == [error |-> e, result |-> r]

\* the whole call as a function of its three arguments
GreatCircleOutcome(s, e, o) ==
    IF OptionsRejected(o) THEN Outcome("InvalidOptions", NoResult)
    ELSE IF ~Destructurable(o) THEN Outcome("TypeError", NoResult)
    ELSE IF ~ValidPoint(s) THEN Outcome("InvalidPointInput", NoResult)
    ELSE LET sc == GetCoord(s)
             re == ResolveEndCoord(sc, e, DestructuredBearing(o))
             props == DestructuredProperties(o)
             n == DestructuredNpoints(o)
         IN  IF re.error # "none" THEN Outcome(re.error, NoResult)
             ELSE IF SameCoord(sc, re.coord)
                  THEN Outcome("none", DegenerateLine(sc, n, props))
                  ELSE Outcome("none",
                         ReturnValue(
                           Segment(Interpolate(sc, re.coord, ArcPoints(n)),
                                   ArcOffset(DestructuredOffset(o))),
                           GeneratorProperties(props)))

----------------------------------------------------------------------------
(* The state machine of one call *)

Locals(p, n, o, b) ==
    /\ properties = p /\ npoints = n /\ offset = o /\ bearing = b

Entry(s, e, o) ==
    /\ start = s /\ end = e /\ options = o
    /\ Locals({}, 0, 0, <<>>)
    /\ startCoord = <<>> /\ endCoord = <<>>
    /\ firstPass = <<>> /\ runs = <<>>
    /\ result = NoResult /\ error = "none"
    /\ interpCalls = 0 /\ segCalls = 0 /\ destCalls = 0

Init ==
    /\ pc = "checkOptions"
    /\ \E s \in StartInputs, e \in EndInputs, o \in OptionsInputs : Entry(s, e, o)

Throw(e) ==
    /\ error' = e
    /\ pc' = "failed"

\* if (typeof options !== "object") throw new Error("options is invalid")
CheckOptions ==
    /\ pc = "checkOptions"
    /\ IF OptionsRejected(options)
       THEN Throw("InvalidOptions")
       ELSE pc' = "destructure" /\ UNCHANGED error
    /\ UNCHANGED <<inputs, properties, npoints, offset, bearing, startCoord,
                   endCoord, firstPass, runs, result, interpCalls, segCalls,
                   destCalls>>

\* const { properties = {}, npoints = 100, offset = 10, bearing } = options
Destructure ==
    /\ pc = "destructure"
    /\ IF Destructurable(options)
       THEN /\ properties' = DestructuredProperties(options)
            /\ npoints' = DestructuredNpoints(options)
            /\ offset' = DestructuredOffset(options)
            /\ bearing' = DestructuredBearing(options)
            /\ pc' = "getStart"
            /\ UNCHANGED error
       ELSE /\ Throw("TypeError")
            /\ UNCHANGED <<properties, npoints, offset, bearing>>
    /\ UNCHANGED <<inputs, startCoord, endCoord, firstPass, runs, result,
                   interpCalls, segCalls, destCalls>>

\* const startCoord = getCoord(start)
GetStart ==
    /\ pc = "getStart"
    /\ IF ValidPoint(start)
       THEN startCoord' = GetCoord(start) /\ pc' = "resolveEnd" /\ UNCHANGED error
       ELSE Throw("InvalidPointInput") /\ UNCHANGED startCoord
    /\ UNCHANGED <<inputs, properties, npoints, offset, bearing, endCoord,
                   firstPass, runs, result, interpCalls, segCalls, destCalls>>

\* the if/else that assigns endCoord
ResolveEnd ==
    /\ pc = "resolveEnd"
    /\ LET re == ResolveEndCoord(startCoord, end, bearing)
       IN  /\ destCalls' = destCalls + re.dest
           /\ IF re.error # "none"
              THEN Throw(re.error) /\ UNCHANGED endCoord
              ELSE endCoord' = re.coord /\ pc' = "compare" /\ UNCHANGED error
    /\ UNCHANGED <<inputs, properties, npoints, offset, bearing, startCoord,
                   firstPass, runs, result, interpCalls, segCalls>>

\* if (startCoord[0] === endCoord[0] && startCoord[1] === endCoord[1])
Compare ==
    /\ pc = "compare"
    /\ pc' = IF SameCoord(startCoord, endCoord) THEN "degenerate" ELSE "arc"
    /\ UNCHANGED <<inputs, properties, npoints, offset, bearing, startCoord,
                   endCoord, firstPass, runs, result, error, interpCalls,
                   segCalls, destCalls>>

\* return lineString(Array(npoints).fill(...), properties)
Degenerate ==
    /\ pc = "degenerate"
    /\ result' = DegenerateLine(startCoord, npoints, properties)
    /\ pc' = "done"
    /\ UNCHANGED <<inputs, properties, npoints, offset, bearing, startCoord,
                   endCoord, firstPass, runs, error, interpCalls, segCalls,
                   destCalls>>

\* generator.Arc(...), first half: the Interpolator
ArcInterpolate ==
    /\ pc = "arc"
    /\ firstPass' = Interpolate(startCoord, endCoord, ArcPoints(npoints))
    /\ interpCalls' = interpCalls + 1
    /\ pc' = "segment"
    /\ UNCHANGED <<inputs, properties, npoints, offset, bearing, startCoord,
                   endCoord, runs, result, error, segCalls, destCalls>>

\* generator.Arc(...), second half: the Segmenter
ArcSegment ==
    /\ pc = "segment"
    /\ runs' = Segment(firstPass, ArcOffset(offset))
    /\ segCalls' = segCalls + 1
    /\ pc' = "json"
    /\ UNCHANGED <<inputs, properties, npoints, offset, bearing, startCoord,
                   endCoord, firstPass, result, error, interpCalls, destCalls>>

\* return line.json()
Return ==
    /\ pc = "json"
    /\ result' = ReturnValue(runs, GeneratorProperties(properties))
    /\ pc' = "done"
    /\ UNCHANGED <<inputs, properties, npoints, offset, bearing, startCoord,
                   endCoord, firstPass, runs, error, interpCalls, segCalls,
                   destCalls>>

Next ==
    \/ CheckOptions
    \/ Destructure
    \/ GetStart
    \/ ResolveEnd
    \/ Compare
    \/ Degenerate
    \/ ArcInterpolate
    \/ ArcSegment
    \/ Return

Spec == Init /\ [][Next]_vars

----------------------------------------------------------------------------
(* The Segmenter on its own: every sequence the Interpolator could hand it. *)
(* A call is picked up right after the Interpolator returned, with any      *)
(* sequence of npoints coordinates whose two ends differ.                   *)

SegLons == Lons \cup {Deg(-170), Deg(175)}
SegCoords == {<<lon, 0>> : lon \in SegLons}

SegSequences ==
    UNION {[1..n -> SegCoords] : n \in 2..MaxNpoints}

SegInit ==
    /\ pc = "segment"
    /\ \E seq \in SegSequences, o \in OffsetValues :
          /\ seq[1] # seq[Len(seq)]
          /\ start = PositionOf(seq[1])
          /\ end = PositionOf(seq[Len(seq)])
          /\ options = OptionsValue("object", <<>>, <<Len(seq)>>, o, <<>>)
          /\ Locals({}, Len(seq), DestructuredOffset(options), <<>>)
          /\ startCoord = seq[1] /\ endCoord = seq[Len(seq)]
          /\ firstPass = seq
    /\ runs = <<>>
    /\ result = NoResult /\ error = "none"
    /\ interpCalls = 1 /\ segCalls = 0 /\ destCalls = 0

SegNext ==
    \/ ArcSegment
    \/ Return

SegSpec == SegInit /\ [][SegNext]_vars

----------------------------------------------------------------------------
(* Vocabulary of the properties *)

Terminal == pc \in {"done", "failed"}

Segmented == pc \in {"json", "done"} /\ segCalls = 1

RECURSIVE Flatten(_)
Flatten(rs) == IF rs = <<>> THEN <<>> ELSE Head(rs) \o Flatten(Tail(rs))

RECURSIVE TotalLen(_)
TotalLen(rs) == IF rs = <<>> THEN 0 ELSE Len(Head(rs)) + TotalLen(Tail(rs))

\* the indices i such that some run ends at p[i] and the next starts at p[i+1]
RunEnds(rs) == {TotalLen(SubSeq(rs, 1, k)) : k \in 1..(Len(rs) - 1)}

\* the number of crossings the Segmenter declared in this call
Crossings ==
    IF segCalls = 0 THEN 0 ELSE Cardinality(RunEnds(runs))

Sensitivities == {5, 10, 20, 100, 200}

----------------------------------------------------------------------------
(* Properties *)

\* C1: equal resolved endpoints give a simple line of exactly npoints
\* coordinates, each equal to the start coordinate, and neither the
\* Interpolator nor the Segmenter is invoked.
C1_DegenerateLine ==
    (pc = "done" /\ startCoord[1] = endCoord[1] /\ startCoord[2] = endCoord[2]) =>
        /\ result.type = "LineString"
        /\ Len(result.coordinates) = 1
        /\ Len(result.coordinates[1]) = Opt(options.npoints, 100)
        /\ \A i \in 1..Len(result.coordinates[1]) :
              result.coordinates[1][i] = start.coord
        /\ interpCalls = 0 /\ segCalls = 0

C1_Witness ==
    /\ pc = "done"
    /\ start.kind = "feature" /\ end.kind = "position"
    /\ start.coord = end.coord /\ start.coord = <<Deg(170), Deg(48)>>
    /\ options.npoints = <<3>>
    /\ Len(result.coordinates[1]) = 3

\* C2: a valid start with neither end nor bearing fails with MissingEndpoint
\* and returns no geometry, whatever properties, npoints and offset are.
C2_MissingEndpoint ==
    (/\ Terminal
     /\ ValidPoint(start)
     /\ end.kind = "undefined"
     /\ options.kind \in {"object", "undefined"}
     /\ options.bearing = <<>>) =>
        /\ pc = "failed"
        /\ error = "MissingEndpoint"
        /\ result = NoResult
        /\ firstPass = <<>> /\ runs = <<>>

C2_Witness ==
    /\ pc = "failed" /\ error = "MissingEndpoint"
    /\ options.kind = "object"
    /\ options.properties # <<>> /\ options.npoints # <<>> /\ options.offset # <<>>

\* C3: with an end supplied, the outcome is that of the same call without
\* the bearing, and the destination projection is never invoked.
C3_EndTakesPrecedence ==
    (Terminal /\ end.kind # "undefined" /\ options.kind = "object") =>
        /\ destCalls = 0
        /\ Outcome(error, result) =
              GreatCircleOutcome(start, end, [options EXCEPT !.bearing = <<>>])

C3_Witness ==
    /\ pc = "done"
    /\ end.kind = "feature"
    /\ options.bearing = <<90>>
    /\ interpCalls = 1

C6_LineOrMultiLine ==
    pc = "done" =>
        /\ result.type \in {"LineString", "MultiLineString"}
        /\ (result.type = "LineString") <=> (Crossings = 0)
        /\ (result.type = "MultiLineString") <=> (Crossings >= 1)
        /\ result.type = "MultiLineString" =>
              /\ Len(result.coordinates) >= 2
              /\ result.coordinates = runs
        /\ result.type = "LineString" =>
              /\ Len(result.coordinates) = 1
              /\ segCalls = 1 => result.coordinates[1] = firstPass

C6_Witness ==
    /\ pc = "done"
    /\ end.kind = "position"
    /\ result.type = "MultiLineString"
    /\ Len(result.coordinates) = 2

\* C7: an options argument that is a number, a string, a boolean, a function
\* or null fails with InvalidOptions before start is normalised and before
\* any option is read; an omitted options argument is the empty
\* configuration (npoints 100, offset 10, empty properties, no bearing).
C7_InvalidOptions ==
    /\ (Terminal /\ options.kind \in NonObjectKinds) =>
          /\ error = "InvalidOptions"
          /\ startCoord = <<>>
          /\ Locals({}, 0, 0, <<>>)
    /\ (options.kind = "undefined" /\ pc \notin {"checkOptions", "destructure"}) =>
          /\ error # "InvalidOptions"
          /\ Locals({}, 100, 10, <<>>)

\* C8: the output carries exactly the supplied property map (the empty map
\* when none is supplied) on both paths and for both geometry types, and
\* the call leaves its arguments unchanged.
C8_PropertiesCarried ==
    /\ [](pc = "done" => result.properties = Opt(options.properties, {}))
    /\ [][start' = start /\ end' = end /\ options' = options]_vars

C8_Witness ==
    /\ pc = "done"
    /\ options.properties = <<TestRoute>>
    /\ result.type = "MultiLineString"
    /\ result.properties = TestRoute

\* C9: the Interpolator runs at most once, only after the options check
\* passed, start was extracted, end was resolved and the two differ; every
\* failure happens before it, so a failing call holds no interpolated
\* coordinates.
C9_InterpolatorGuarded ==
    /\ interpCalls <= 1
    /\ interpCalls = 1 =>
          /\ ~OptionsRejected(options)
          /\ error = "none"
          /\ startCoord # <<>> /\ endCoord # <<>>
          /\ startCoord = start.coord
          /\ end.kind # "undefined" => endCoord = end.coord
          /\ end.kind = "undefined" => destCalls = 1
          /\ startCoord # endCoord
    /\ error # "none" =>
          /\ pc = "failed"
          /\ interpCalls = 0 /\ segCalls = 0
          /\ firstPass = <<>> /\ runs = <<>> /\ result = NoResult
    /\ pc = "arc" => interpCalls = 0

C9_Witness ==
    /\ pc = "done"
    /\ interpCalls = 1
    /\ end.kind = "undefined"
    /\ Len(firstPass) = 100

\* C10: a pair declared a crossing at one sensitivity is declared a crossing
\* at every higher one, so the number of runs does not decrease; and the
\* decision for a pair is the one taken on that pair alone.
C10_SensitivityMonotone ==
    Segmented =>
        /\ \A i \in 1..(Len(firstPass) - 1) :
              (i \in RunEnds(runs))
                  <=> (Len(Segment(<<firstPass[i], firstPass[i + 1]>>, offset)) = 2)
        /\ \A s2 \in Sensitivities :
              s2 >= offset =>
                  /\ RunEnds(runs) \subseteq RunEnds(Segment(firstPass, s2))
                  /\ Len(runs) <= Len(Segment(firstPass, s2))
        /\ \A s1 \in Sensitivities :
              s1 <= offset =>
                  /\ RunEnds(Segment(firstPass, s1)) \subseteq RunEnds(runs)
                  /\ Len(Segment(firstPass, s1)) <= Len(runs)

C10_Witness ==
    /\ pc = "done"
    /\ offset = 10
    /\ Len(runs) = 1
    /\ Len(Segment(firstPass, 20)) = 2
    /\ Len(Segment(firstPass, 200)) = 3

====
